---- MODULE Spec2Model ----
(***************************************************************************)
(* Model of 4-Video.ipynb: getPCAVideo (cell 7), getSlidingWindowVideo     *)
(* (cell 9), the single-video pipeline of cell 11 and the KTH ranking      *)
(* loop of cell 22.                                                        *)
(*                                                                         *)
(* Numbers.  Tau and dT are reals in the notebook; here they are exact     *)
(* rationals <<numerator, denominator>> with a positive denominator, and   *)
(* floor/ceil are exact.  Floating-point rounding of Tau*k or of the       *)
(* quotient in NWindows is not modelled.  Interpolated values are kept as  *)
(* integers scaled by the common denominator of the sample times.  A       *)
(* number that numpy would compute as NaN is marked as such.                *)
(*                                                                         *)
(* Arrays are sequences; At(a, t) is the 0-based a[t] of the notebook.     *)
(***************************************************************************)
EXTENDS Integers, Sequences, FiniteSets

VARIABLES
    pc,        \* position in the notebook code
    caller,    \* which cell called getSlidingWindowVideo: "cell11" | "cell22"
    err,       \* "none", or the exception that ended the run
    lam,       \* getPCAVideo: eigenvalues returned by linalg.eigh
    V,         \* getPCAVideo: per-column scale factor applied to V
    I,         \* getSlidingWindowVideo: the series passed in (N frames x P)
    dim,       \* embedding dimension (global of cells 11/22, parameter of cell 9)
    Tau,       \* delay, a rational
    dT,        \* step, a rational
    NWindows,  \* getSlidingWindowVideo: NWindows
    swX,       \* getSlidingWindowVideo: its local X, the cloud being filled
    swi,       \* getSlidingWindowVideo: its loop index i
    need,      \* frame indices start..end requested by the rows computed so far
    XS,        \* the cloud held by the calling cell
    PDs,       \* result of doRipsFiltration(XS, 1): sequence of diagrams
    videos,    \* cell 22: per video, whether loadVideo can decode it
    BlockLen,  \* cell 22
    BlockHop,  \* cell 22
    win,       \* cell 22
    i,         \* cell 22: video loop index
    X,         \* cell 22: the video's series after PCA and time derivative
    NBlocks,   \* cell 22
    k,         \* cell 22: block-building loop index
    idxs,      \* cell 22: list of index arrays, one per block
    res,       \* cell 22: per-block scores
    j,         \* cell 22: scoring loop index
    scores,    \* cell 22: per-video scores
    maxXS,     \* cell 22
    maxPD,     \* cell 22
    blocks,    \* cell 22: per block of the current video, the XS and PDs computed for it
    order      \* cell 22: the printed ranking np.argsort(-scores)+1

vars == <<pc, caller, err, lam, V, I, dim, Tau, dT, NWindows, swX, swi, need,
          XS, PDs, videos, BlockLen, BlockHop, win, i, X, NBlocks, k, idxs,
          res, j, scores, maxXS, maxPD, blocks, order>>

pcaVars == <<lam, V>>
swVars == <<I, dim, Tau, dT, NWindows, swX, swi, need>>
cellVars == <<XS, PDs>>
batchVars == <<videos, BlockLen, BlockHop, win, i, X, NBlocks, k, idxs, res,
               j, scores, maxXS, maxPD, blocks, order>>

----------------------------------------------------------------------------
(* Bounds of the model.                                                    *)

MaxN == 6          \* frames in a series
MaxP == 2          \* pixels per frame
MaxDim == 2        \* embedding dimension
MaxNum == 3        \* numerators of Tau and dT
MaxDen == 2        \* denominators of Tau and dT
MaxVideos == 2     \* videos in the batch
MaxBlock == 5      \* BlockLen and BlockHop
MaxWin == 1        \* win
MaxDeath == 1      \* birth and death values in a diagram

----------------------------------------------------------------------------
(* Arithmetic helpers.                                                     *)

At(a, t) == a[t + 1]

Max(a, b) == IF a >= b THEN a ELSE b
Min(a, b) == IF a <= b THEN a ELSE b

RECURSIVE SumSeq(_)
SumSeq(s) == IF s = <<>> THEN 0 ELSE Head(s) + SumSeq(Tail(s))

\* np.floor(a/b) and np.ceil(a/b) for integers a, b with b # 0
Floor(a, b) == IF b > 0 THEN a \div b ELSE (0 - a) \div (0 - b)
Ceil(a, b) == 0 - Floor(0 - a, b)

\* np.sqrt on a perfect square: the root, and NaN (with a warning, no
\* exception) below zero
Sqrt(x) ==
    IF x < 0 THEN [nan |-> TRUE, val |-> 0]
    ELSE [nan |-> FALSE, val |-> CHOOSE r \in 0..x : r * r = x]

----------------------------------------------------------------------------
(* Values of variables a specification does not use.                       *)

Idle == "-"
ZeroRat == <<0, 1>>

PcaIdle == lam = <<>> /\ V = <<>>
SwIdle ==
    /\ I = <<>> /\ dim = 0 /\ Tau = ZeroRat /\ dT = ZeroRat
    /\ NWindows = 0 /\ swX = <<>> /\ swi = 0 /\ need = {}
CellIdle == XS = <<>> /\ PDs = <<>>
BatchIdle ==
    /\ videos = <<>> /\ BlockLen = 0 /\ BlockHop = 0 /\ win = 0 /\ i = 0
    /\ X = <<>> /\ NBlocks = 0 /\ k = 0 /\ idxs = <<>> /\ res = <<>> /\ j = 0
    /\ scores = <<>> /\ maxXS = <<>> /\ maxPD = <<>> /\ blocks = <<>>
    /\ order = <<>>

----------------------------------------------------------------------------
(* getPCAVideo, cell 7.                                                    *)

\* Eigenvalues as linalg.eigh returns them: ascending, and, from rounding,
\* possibly below zero for a rank-deficient Gram matrix.
LamVals == {-1, 0, 1, 4}
Eigenvalues(n) ==
    {l \in [1..n -> LamVals] : \A a \in 1..n, b \in 1..n : a < b => l[a] <= l[b]}

\* np.sqrt(lam[None, :]): the factor each column of V is multiplied by
ColumnScale(l) == [c \in 1..Len(l) |-> Sqrt(l[c])]

getPCAVideo ==
    /\ pc = "pca"
    /\ V' = ColumnScale(lam)
    /\ pc' = "pca_done"
    /\ UNCHANGED <<caller, err, lam, swVars, cellVars, batchVars>>

InitPCA ==
    /\ pc = "pca" /\ caller = Idle /\ err = "none"
    /\ \E n \in 1..MaxN : lam \in Eigenvalues(n)
    /\ V = <<>>
    /\ SwIdle /\ CellIdle /\ BatchIdle

NextPCA == getPCAVideo
SpecPCA == InitPCA /\ [][NextPCA]_vars

----------------------------------------------------------------------------
(* getSlidingWindowVideo, cell 9.                                          *)

N == Len(I)                                    \* I.shape[0]
P == Len(I[1])                                 \* I.shape[1]
D == Tau[2] * dT[2]                            \* common denominator of idxx
\* idxx[c] for window w, as a numerator over D: dT*w + Tau*c
idxx(w, c) == dT[1] * w * Tau[2] + Tau[1] * c * dT[2]
\* int(np.floor((N-dim*Tau)/dT)), for dT # 0
WindowCount == Floor((N * Tau[2] - dim * Tau[1]) * dT[2], Tau[2] * dT[1])
WindowStart(w) == Floor(idxx(w, 0), D)
WindowEndShort(w) == Ceil(idxx(w, dim - 1), D) + 1
WindowEnd(w) == Ceil(idxx(w, dim - 1), D) + 2
OutOfRangeStrict(w) == WindowEnd(w) > N
OutOfRange(w) == WindowEnd(w) >= N
\* idx[start:end+1]: a negative start counts from the end of the array
SliceLo(w) == IF WindowStart(w) < 0 THEN Max(N + WindowStart(w), 0) ELSE WindowStart(w)
SliceHi(w) == Min(WindowEnd(w), N - 1)
\* the linear interpolant of pixel p at time a/D, times D; a time outside the
\* frames handed to interp2d is evaluated at the nearest of them
Interp(a, p, lo, hi) ==
    LET ac == Max(lo * D, Min(hi * D, a))
        f == ac \div D
        r == ac % D
    IN  At(At(I, f), p) * (D - r) + (IF r = 0 THEN 0 ELSE At(At(I, f + 1), p) * r)
\* f(pix, idxx).flatten(): dim sample times, P pixels each, row-major
Row(w) ==
    [q \in 1..(dim * P) |->
        Interp(idxx(w, (q - 1) \div P), (q - 1) % P, SliceLo(w), SliceHi(w))]
Zeros(rows, cols) == [a \in 1..rows |-> [b \in 1..cols |-> 0]]

\* lines 113-118
SWStart ==
    /\ pc = "sw_start"
    /\ IF dT[1] = 0
         THEN /\ err' = "getSlidingWindowVideo: ZeroDivisionError"
              /\ pc' = "error"
              /\ UNCHANGED <<NWindows, swX>>
         ELSE /\ NWindows' = WindowCount
              /\ IF WindowCount < 0
                   THEN /\ err' = "getSlidingWindowVideo: ValueError"
                        /\ pc' = "error"
                        /\ UNCHANGED swX
                   ELSE /\ swX' = Zeros(WindowCount, dim * P)
                        /\ pc' = "sw_loop"
                        /\ UNCHANGED err
    /\ swi' = 0
    /\ need' = {}
    /\ UNCHANGED <<caller, pcaVars, I, dim, Tau, dT, cellVars, batchVars>>

\* lines 119-127: the loop head and one iteration.  interp2d raises when it is
\* handed fewer than 2 frames.
SWStep ==
    /\ pc = "sw_loop"
    /\ IF swi >= NWindows
         THEN /\ pc' = "sw_return"
              /\ UNCHANGED <<swX, swi, need, err>>
         ELSE IF OutOfRange(swi)
         THEN /\ swX' = SubSeq(swX, 1, swi)
              /\ pc' = "sw_return"
              /\ UNCHANGED <<swi, need, err>>
         ELSE IF SliceHi(swi) - SliceLo(swi) < 1
                THEN /\ err' = "getSlidingWindowVideo: ValueError"
                     /\ pc' = "error"
                     /\ UNCHANGED <<swX, swi, need>>
                ELSE /\ swX' = [swX EXCEPT ![swi + 1] = Row(swi)]
                     /\ need' = need \cup (WindowStart(swi)..WindowEnd(swi))
                     /\ swi' = swi + 1
                     /\ UNCHANGED <<pc, err>>
    /\ UNCHANGED <<caller, pcaVars, I, dim, Tau, dT, NWindows, cellVars, batchVars>>

\* line 128, and the assignment to XS at the call (lines 178, 384)
SWReturn ==
    /\ pc = "sw_return"
    /\ XS' = swX
    /\ pc' = "center"
    /\ UNCHANGED <<caller, err, pcaVars, swVars, PDs, batchVars>>

----------------------------------------------------------------------------
(* Mean-centering, normalisation and persistence: cell 11 lines 181-185,   *)
(* cell 22 lines 387-390.                                                  *)

\* row - np.mean(row), times the row length
CenterRow(row) == [q \in 1..Len(row) |-> Len(row) * row[q] - SumSeq(row)]
\* np.sum(row**2)
SumSq(row) == SumSeq([q \in 1..Len(row) |-> row[q] * row[q]])
\* row / np.sqrt(np.sum(row**2)): the entry c/sqrt(s) is kept as <<c, s>>.
\* With s = 0 the row is all zero and numpy divides 0 by 0: the entry <<0, 0>>
\* is NaN (numpy warns, it does not raise).
NormalizeRow(row) == [q \in 1..Len(row) |-> <<row[q], SumSq(row)>>]
IsNaN(e) == e[2] = 0

\* XS = XS - np.mean(XS, 1)[:, None]
MeanCenter ==
    /\ pc = "center"
    /\ XS' = [r \in 1..Len(XS) |-> CenterRow(XS[r])]
    /\ pc' = "normalize"
    /\ UNCHANGED <<caller, err, pcaVars, swVars, PDs, batchVars>>

\* XS = XS/np.sqrt(np.sum(XS**2, 1))[:, None]
Normalize ==
    /\ pc = "normalize"
    /\ XS' = [r \in 1..Len(XS) |-> NormalizeRow(XS[r])]
    /\ pc' = "rips"
    /\ UNCHANGED <<caller, err, pcaVars, swVars, PDs, batchVars>>

\* Degree-1 diagrams the persistence computer may return: arrays of
\* (birth, death) rows with birth <= death.
Diagrams ==
    {<<>>}
    \cup {<< <<0, d>> >> : d \in 0..MaxDeath}
    \cup {<< <<1, MaxDeath>>, <<0, d>> >> : d \in 1..MaxDeath}
\* doRipsFiltration(cloud, 1) is TDA.py's, not the notebook's: its result is
\* any list of diagrams, with or without a degree-1 entry; a cloud of fewer
\* than 2 points has no degree-1 pair.
doRipsFiltration(cloud) ==
    {<< <<>> >>}
    \cup {<< <<>>, d >> : d \in IF Len(cloud) < 2 THEN {<<>>} ELSE Diagrams}

Rips ==
    /\ pc = "rips"
    /\ PDs' \in doRipsFiltration(XS)
    /\ pc' = IF caller = "cell22" THEN "score" ELSE "done"
    /\ UNCHANGED <<caller, err, pcaVars, swVars, XS, batchVars>>

----------------------------------------------------------------------------
(* Cell 11: one series through getSlidingWindowVideo, normalisation and    *)
(* doRipsFiltration, for any positive dim, Tau, dT.                        *)

\* Series of n frames of p pixels: constant, a ramp in time, varying over
\* the pixels only, and alternating.
Frames(n, p) ==
    { [t \in 1..n |-> [q \in 1..p |-> 1]],
      [t \in 1..n |-> [q \in 1..p |-> t]],
      [t \in 1..n |-> [q \in 1..p |-> q]],
      [t \in 1..n |-> [q \in 1..p |-> (t + q) % 2]] }
PosRationals == {<<a, b>> : a \in 1..MaxNum, b \in 1..MaxDen}

InitEmbed ==
    /\ pc = "sw_start" /\ caller = "cell11" /\ err = "none"
    /\ PcaIdle
    /\ \E n \in 1..MaxN, p \in 1..MaxP : I \in Frames(n, p)
    /\ dim \in 1..MaxDim
    /\ Tau \in PosRationals
    /\ dT \in PosRationals
    /\ NWindows = 0 /\ swX = <<>> /\ swi = 0 /\ need = {}
    /\ CellIdle /\ BatchIdle

NextEmbed ==
    \/ SWStart \/ SWStep \/ SWReturn
    \/ MeanCenter \/ Normalize \/ Rips
SpecEmbed == InitEmbed /\ [][NextEmbed]_vars

----------------------------------------------------------------------------
(* Cell 22: the KTH ranking loop.  loadVideo, getTimeDerivative and        *)
(* doRipsFiltration are imported; what they return is an input here.  The  *)
(* cell has no try/except: an exception anywhere ends the run.             *)

\* int(np.ceil(1 + (N - BlockLen)/BlockHop)), line 368
BlockCountFloor(n) == Floor(BlockHop + n - BlockLen, BlockHop)
BlockCount(n) == Ceil(BlockHop + n - BlockLen, BlockHop)
\* np.arange(k*BlockHop, k*BlockHop+BlockLen)[thisidxs < N], lines 371-372
RECURSIVE Arange(_, _)
Arange(a, b) == IF a >= b THEN <<>> ELSE <<a>> \o Arange(a + 1, b)
BlockIdx(b, n) == Arange(b * BlockHop, Min(b * BlockHop + BlockLen, n))
\* np.max(PDs[1][:, 1] - PDs[1][:, 0]), line 394
RECURSIVE MaxPersistence(_)
FirstPersistence(pd) == pd[1][2] - pd[1][1]
MaxPersistence(pd) ==
    IF Len(pd) = 1 THEN pd[1][2] - pd[1][1]
    ELSE Max(pd[1][2] - pd[1][1], MaxPersistence(Tail(pd)))
\* res[j] > scores[i], line 395
ImprovesOrEqual(r, s) == r >= s
Improves(r, s) == r > s
\* np.argsort(-scores)+1, line 401.  The default sort kind is quicksort,
\* which numpy does not promise to be stable: any order that sorts.
Orderings(n) ==
    {f \in [1..n -> 1..n] : \A a \in 1..n : \E b \in 1..n : f[b] = a}
ArgsortAscending(s) ==
    {f \in Orderings(Len(s)) :
        \A a \in 1..Len(s), b \in 1..Len(s) : a < b => s[f[a]] <= s[f[b]]}
ArgsortDescending(s) ==
    {f \in Orderings(Len(s)) :
        \A a \in 1..Len(s), b \in 1..Len(s) : a < b => s[f[a]] >= s[f[b]]}

\* What loadVideo, getPCAVideo and getTimeDerivative leave in X: n frames,
\* here of one channel, constant or alternating.
VideoFrames(n) ==
    { [t \in 1..n |-> <<1>>], [t \in 1..n |-> <<t % 2>>] }

\* lines 362-368: the head of the video loop
LoadVideo ==
    /\ pc = "video_loop"
    /\ i < Len(videos)
    /\ IF ~videos[i + 1]
         THEN /\ err' = "loadVideo: IOError"
              /\ pc' = "error"
              /\ UNCHANGED <<X, idxs, NBlocks, k>>
         ELSE /\ \E n \in 1..MaxN :
                    /\ X' \in VideoFrames(n)
                    /\ NBlocks' = BlockCount(n)
              /\ idxs' = <<>>
              /\ k' = 0
              /\ pc' = "block_loop"
              /\ UNCHANGED err
    /\ UNCHANGED <<caller, pcaVars, swVars, cellVars, videos, BlockLen,
                   BlockHop, win, i, res, j, scores, maxXS, maxPD, blocks,
                   order>>

\* lines 370-373, one iteration
BuildBlock ==
    /\ pc = "block_loop"
    /\ k < NBlocks
    /\ idxs' = Append(idxs, BlockIdx(k, Len(X)))
    /\ k' = k + 1
    /\ UNCHANGED <<pc, caller, err, pcaVars, swVars, cellVars, videos,
                   BlockLen, BlockHop, win, i, X, NBlocks, res, j, scores,
                   maxXS, maxPD, blocks, order>>

\* lines 375-379: np.zeros(NBlocks) raises on a negative NBlocks
BlocksDone ==
    /\ pc = "block_loop"
    /\ k >= NBlocks
    /\ IF NBlocks < 0
         THEN /\ err' = "np.zeros(NBlocks): ValueError"
              /\ pc' = "error"
              /\ UNCHANGED <<res, maxXS, maxPD, j, blocks>>
         ELSE /\ res' = [b \in 1..NBlocks |-> 0]
              /\ maxXS' = <<>>
              /\ maxPD' = <<>>
              /\ j' = 0
              /\ blocks' = <<>>
              /\ pc' = "score_loop"
              /\ UNCHANGED err
    /\ UNCHANGED <<caller, pcaVars, swVars, cellVars, videos, BlockLen,
                   BlockHop, win, i, X, NBlocks, k, idxs, scores, order>>

\* lines 380-384: Tau, dT and the call of getSlidingWindowVideo(X[idx, :], ...)
BlockEmbed ==
    /\ pc = "score_loop"
    /\ j < Len(idxs)
    /\ LET idx == idxs[j + 1]
           n == Len(idx)
       IN  IF dim - 1 = 0 \/ n = 0
             THEN /\ err' = "ZeroDivisionError"
                  /\ pc' = "error"
                  /\ UNCHANGED <<caller, I, Tau, dT>>
             ELSE /\ Tau' = <<win, dim - 1>>
                  /\ dT' = <<n * (dim - 1) - dim * win, (dim - 1) * n>>
                  /\ I' = [t \in 1..n |-> At(X, idx[t])]
                  /\ caller' = "cell22"
                  /\ pc' = "sw_start"
                  /\ UNCHANGED err
    /\ UNCHANGED <<pcaVars, dim, NWindows, swX, swi, need, cellVars, batchVars>>

\* lines 391-398
Score ==
    /\ pc = "score"
    /\ IF Len(PDs) < 2
         THEN UNCHANGED <<res, scores, maxXS, maxPD>>
         ELSE IF Len(PDs[2]) > 0
           THEN /\ res' = [res EXCEPT ![j + 1] = MaxPersistence(PDs[2])]
                /\ IF Improves(MaxPersistence(PDs[2]), scores[i + 1])
                     THEN /\ scores' = [scores EXCEPT ![i + 1] = MaxPersistence(PDs[2])]
                          /\ maxXS' = XS
                          /\ maxPD' = PDs[2]
                     ELSE UNCHANGED <<scores, maxXS, maxPD>>
           ELSE UNCHANGED <<res, scores, maxXS, maxPD>>
    /\ blocks' = Append(blocks, [XS |-> XS, PDs |-> PDs])
    /\ j' = j + 1
    /\ pc' = "score_loop"
    /\ UNCHANGED <<caller, err, pcaVars, swVars, cellVars, videos, BlockLen,
                   BlockHop, win, i, X, NBlocks, k, idxs, order>>

\* line 380 exhausted: on to the next video (line 361)
VideoDone ==
    /\ pc = "score_loop"
    /\ j >= Len(idxs)
    /\ i' = i + 1
    /\ pc' = "video_loop"
    /\ UNCHANGED <<caller, err, pcaVars, swVars, cellVars, videos, BlockLen,
                   BlockHop, win, X, NBlocks, k, idxs, res, j, scores, maxXS,
                   maxPD, blocks, order>>

\* lines 400-401
Rank ==
    /\ pc = "video_loop"
    /\ i >= Len(videos)
    /\ order' \in ArgsortDescending(scores)
    /\ pc' = "done"
    /\ UNCHANGED <<caller, err, pcaVars, swVars, cellVars, videos, BlockLen,
                   BlockHop, win, i, X, NBlocks, k, idxs, res, j, scores,
                   maxXS, maxPD, blocks>>

\* lines 354-359
Init ==
    /\ pc = "video_loop" /\ caller = "cell22" /\ err = "none"
    /\ PcaIdle
    /\ I = <<>> /\ Tau = ZeroRat /\ dT = ZeroRat
    /\ NWindows = 0 /\ swX = <<>> /\ swi = 0 /\ need = {}
    /\ CellIdle
    /\ \E n \in 1..MaxVideos : videos \in [1..n -> BOOLEAN]
    /\ BlockLen \in 1..MaxBlock
    /\ BlockHop \in 1..MaxBlock
    /\ win \in 1..MaxWin
    /\ dim \in 1..MaxDim
    /\ scores = [v \in 1..Len(videos) |-> 0]
    /\ i = 0 /\ X = <<>> /\ NBlocks = 0 /\ k = 0 /\ idxs = <<>> /\ res = <<>>
    /\ j = 0 /\ maxXS = <<>> /\ maxPD = <<>> /\ blocks = <<>> /\ order = <<>>

Next ==
    \/ LoadVideo \/ BuildBlock \/ BlocksDone \/ BlockEmbed
    \/ SWStart \/ SWStep \/ SWReturn
    \/ MeanCenter \/ Normalize \/ Rips
    \/ Score \/ VideoDone \/ Rank
Spec == Init /\ [][Next]_vars

----------------------------------------------------------------------------
(* Properties of getPCAVideo (SpecPCA).                                    *)

\* C9: getPCAVideo scales each eigenvector column by sqrt(max(lambda, 0)):
\* the factor is defined for every eigenvalue, and is 0 for a negative one.
C9_ClampedScale ==
    pc = "pca_done" =>
        \A c \in 1..Len(lam) :
            /\ ~V[c].nan
            /\ V[c] = Sqrt(Max(lam[c], 0))

----------------------------------------------------------------------------
(* Properties of getSlidingWindowVideo and of cell 11 (SpecEmbed).         *)

Returned == pc \notin {"sw_start", "sw_loop", "error"}
\* floor((N - dim*tau)/dT) for dT > 0, from the numerators and denominators
FloorCount == ((Len(I) * Tau[2] - dim * Tau[1]) * dT[2]) \div (Tau[2] * dT[1])
\* ceil of window w's last sample time, plus 2
NeededEnd(w) ==
    0 - ((0 - (dT[1] * w * Tau[2] + Tau[1] * (dim - 1) * dT[2])) \div (Tau[2] * dT[2])) + 2
\* floor of window w's first sample time
NeededStart(w) == (dT[1] * w) \div dT[2]
DimTauBelowN == dim * Tau[1] < Len(I) * Tau[2]

\* C1 as stated: with dim*tau < N the cloud has exactly floor((N - dim*tau)/dT)
\* rows.
C1_ExactRows == (Returned /\ DimTauBelowN) => Len(swX) = FloorCount

\* C1, amended: with dim*tau < N the cloud has at most floor((N - dim*tau)/dT)
\* rows, and exactly that many if and only if no requested window needs a
\* frame at or past N.
C1_AtMostRows ==
    (Returned /\ DimTauBelowN) =>
        /\ Len(swX) <= FloorCount
        /\ (Len(swX) = FloorCount
              <=> \A w \in 0..(FloorCount - 1) : NeededEnd(w) < Len(I))
C1_Witness ==
    /\ Returned /\ DimTauBelowN
    /\ Len(swX) >= 1 /\ Len(swX) < FloorCount

\* C2: with dim*tau >= N the function ends normally with an empty cloud.
C2_EmptyNotError ==
    ~DimTauBelowN => (err = "none" /\ (Returned => swX = <<>>))

\* C10: every computed row needs only frames of [0, N-1], the function does
\* not fail once it is in its loop, and the returned rows are the windows
\* 0..i-1 with i the first window whose needed end reaches N (all NWindows
\* when there is none); every window from i on is out of range too.
C10_Truncation ==
    /\ need \subseteq 0..(Len(I) - 1)
    /\ pc = "error" => (swi = 0 /\ swX = <<>> /\ need = {})
    /\ Returned =>
        LET out == {w \in 0..(FloorCount - 1) : NeededEnd(w) >= Len(I)}
            first == IF out = {} THEN FloorCount
                     ELSE CHOOSE w \in out : \A u \in out : w <= u
        IN  /\ Len(swX) = first
            /\ \A w \in first..(FloorCount - 1) : w \in out
            /\ need = UNION {NeededStart(w)..NeededEnd(w) : w \in 0..(first - 1)}
            /\ pc = "sw_return" => \A w \in 0..(first - 1) : swX[w + 1] = Row(w)
C10_Witness ==
    /\ pc = "sw_return" /\ Len(swX) >= 1 /\ Len(swX) < FloorCount
    /\ Len(I) - 1 \in need

\* C6: no row handed to the persistence computer is NaN: a row of zero norm
\* is flagged or replaced, not divided by its norm.
C6_NoNaNRow ==
    pc \in {"rips", "done"} =>
        \A r \in 1..Len(XS) : \A q \in 1..Len(XS[r]) : ~IsNaN(XS[r][q])

----------------------------------------------------------------------------
(* Properties of cell 22 (Spec).                                           *)

Elems(a) == {a[q] : q \in 1..Len(a)}
SetMax(S) == CHOOSE m \in S : \A x \in S : m >= x
\* the largest death - birth of a diagram, 0 for an empty one
MaxGap(pd) == IF pd = <<>> THEN 0 ELSE SetMax({e[2] - e[1] : e \in Elems(pd)})
\* the degree-1 diagram of a block, empty when doRipsFiltration returned none
Degree1(b) == IF Len(b.PDs) < 2 THEN <<>> ELSE b.PDs[2]
BlockScore(b) == MaxGap(Degree1(b))
\* every block of video i has been scored
VideoScored == pc = "score_loop" /\ j >= Len(idxs)
BlockLoopDone == pc = "block_loop" /\ k >= NBlocks
\* ceil(1 + (N - BlockLen)/BlockHop)
CeilBlocks == 0 - ((BlockLen - BlockHop - Len(X)) \div BlockHop)

\* C3 as stated: the block loop builds ceil(1 + (N - BlockLen)/BlockHop)
\* blocks, block b holding the indices b*BlockHop .. b*BlockHop+BlockLen-1
\* below N; their union is [0, N) and none holds an index above N-1.
C3_BlocksCover ==
    BlockLoopDone =>
        /\ Len(idxs) = IF CeilBlocks < 0 THEN 0 ELSE CeilBlocks
        /\ \A b \in 1..Len(idxs) :
              Elems(idxs[b]) =
                  {t \in ((b - 1) * BlockHop)..((b - 1) * BlockHop + BlockLen - 1) :
                      t < Len(X)}
        /\ UNION {Elems(idxs[b]) : b \in 1..Len(idxs)} = 0..(Len(X) - 1)

\* C3, amended: the block loop builds ceil(1 + (N - BlockLen)/BlockHop) blocks
\* (none when that is below 1), block b holding the indices
\* b*BlockHop .. b*BlockHop+BlockLen-1 below N, so none holds an index above
\* N-1; their union is [0, N) if and only if N > BlockLen - BlockHop and
\* (BlockHop <= BlockLen or N <= BlockLen).
C3_BlocksCoverWhenOverlapping ==
    BlockLoopDone =>
        /\ Len(idxs) = IF CeilBlocks < 0 THEN 0 ELSE CeilBlocks
        /\ \A b \in 1..Len(idxs) :
              Elems(idxs[b]) =
                  {t \in ((b - 1) * BlockHop)..((b - 1) * BlockHop + BlockLen - 1) :
                      t < Len(X)}
        /\ (UNION {Elems(idxs[b]) : b \in 1..Len(idxs)} = 0..(Len(X) - 1))
              <=> /\ Len(X) > BlockLen - BlockHop
                  /\ (BlockHop <= BlockLen \/ Len(X) <= BlockLen)
C3_Witness ==
    /\ BlockLoopDone
    /\ Len(idxs) >= 2
    /\ Len(idxs[Len(idxs)]) < BlockLen
    /\ UNION {Elems(idxs[b]) : b \in 1..Len(idxs)} = 0..(Len(X) - 1)

\* C4: once all blocks of video i are scored, scores[i] is the largest block
\* score, a block's score being its largest death - birth in degree 1 and 0
\* when that diagram is empty or absent.
C4_VideoScore ==
    VideoScored =>
        /\ Len(blocks) = Len(idxs)
        /\ \A b \in 1..Len(blocks) : scores[i + 1] >= BlockScore(blocks[b])
        /\ blocks # <<>> =>
              \E b \in 1..Len(blocks) : scores[i + 1] = BlockScore(blocks[b])
        /\ blocks = <<>> => scores[i + 1] = 0
C4_Witness ==
    /\ VideoScored
    /\ \E b \in 1..Len(blocks), c \in 1..Len(blocks) :
          /\ Len(blocks[b].PDs) < 2
          /\ Len(Degree1(blocks[c])) = 2
          /\ BlockScore(blocks[c]) = scores[i + 1]
          /\ scores[i + 1] > 0

C7_FailureIsLocal ==
    pc = "error" =>
        err \notin {"loadVideo: IOError",
                    "getSlidingWindowVideo: ValueError",
                    "getSlidingWindowVideo: ZeroDivisionError"}

\* C8 as stated: once all blocks of a video (with at least one block) are
\* scored, the retained maxPD and maxXS are the degree-1 diagram and the cloud
\* of a block that achieved the video's score, and maxPD's largest
\* death - birth is that score.
C8_RetainsMaxBlock ==
    (VideoScored /\ blocks # <<>>) =>
        /\ MaxGap(maxPD) = scores[i + 1]
        /\ \E b \in 1..Len(blocks) :
              /\ BlockScore(blocks[b]) = scores[i + 1]
              /\ maxPD = Degree1(blocks[b])
              /\ maxXS = blocks[b].XS

\* C8, amended: for a video whose score is positive, maxPD and maxXS are the
\* degree-1 diagram and the cloud of the first block that achieved the score;
\* for a video whose score is 0 nothing is retained.
C8_RetainsFirstMax ==
    VideoScored =>
        IF scores[i + 1] > 0
          THEN /\ MaxGap(maxPD) = scores[i + 1]
               /\ \E b \in 1..Len(blocks) :
                     /\ BlockScore(blocks[b]) = scores[i + 1]
                     /\ \A c \in 1..(b - 1) : BlockScore(blocks[c]) < scores[i + 1]
                     /\ maxPD = Degree1(blocks[b])
                     /\ maxXS = blocks[b].XS
          ELSE maxXS = <<>> /\ maxPD = <<>>
C8_Witness ==
    /\ VideoScored
    /\ scores[i + 1] > 0
    /\ \E b \in 1..Len(blocks), c \in 1..Len(blocks) :
          /\ b < c
          /\ BlockScore(blocks[b]) = scores[i + 1]
          /\ BlockScore(blocks[c]) = scores[i + 1]
          /\ blocks[b].XS # blocks[c].XS
          /\ maxXS = blocks[b].XS

====
